---------------------------- MODULE Spec2Model ----------------------------
(***************************************************************************)
(* A model of app.py, the Streamlit dashboard of the Instacart report.     *)
(*                                                                         *)
(* Text is modelled character by character: a Python str is a sequence of  *)
(* one-character values.  An ASCII character is itself; a Hangul syllable  *)
(* of the source is written by its romanisation and still counts as ONE    *)
(* character:  "pyeong" "gyun" = 평균, "choe" "so" = 최소, "choe" "dae" =  *)
(* 최대, "il" = 일, "gae" = 개, "si" = 시, "wol" "hwa" "su" "mok" "geum"   *)
(* "to" "il" = 월 화 수 목 금 토 일.  Column names 항목 / 빈도 / 시간 are *)
(* the record fields hangmok / bindo / sigan, and the keys 평균 / 최소 /   *)
(* 최대 / 단위 of the statistics record are pyeonggyun / choeso / choedae  *)
(* / danwi.                                                                *)
(***************************************************************************)
EXTENDS Integers, Sequences, FiniteSets, TLC

VARIABLES
    kvClauses,   \* the clauses the frequency-list cell was written from
    kvIn,        \* argument of parse_key_value_string: NaN or a str
    kvOut,       \* its return value (the empty table before the call)
    kvPc,        \* "call" before parse_key_value_string runs, "return" after
    stParts,     \* the phrases the statistics sentence was written from
    stIn,        \* argument of parse_stats_string: NaN or a str
    stOut,       \* its outcome (NoStats before the call)
    stPc,        \* "call" before parse_stats_string runs, "return" after
    pc,          \* where the script run of app.py stands
    file,        \* stratified_top10_users_report.csv: absent, or its rows
    cache,       \* st.cache_data's memo of load_data
    df,          \* the module-level df (line 218)
    rendered,    \* the elements this script run has put on the page
    selected_segment, selected_user_id,   \* the two selectboxes
    user_data,   \* df[df['user_id'] == selected_user_id]
    user_info,   \* user_data.iloc[0]
    order_stats, basket_stats,            \* the two Range Statistics
    dow_df, hour_df, dept_df, aisle_df,   \* the four Frequency Tables
    kpi          \* max_dow, max_hour, produce_pct, top_aisle, top_aisle_pct

parserVars == <<kvClauses, kvIn, kvOut, kvPc, stParts, stIn, stOut, stPc>>
loadVars == <<file, cache, df>>
pickVars == <<selected_segment, selected_user_id, user_data, user_info>>
tableVars == <<dow_df, hour_df, dept_df, aisle_df>>
statVars == <<order_stats, basket_stats>>
appVars == <<pc, loadVars, rendered, pickVars, statVars, tableVars, kpi>>
vars == <<parserVars, appVars>>

(***************************************************************************)
(* Bounds of the model.                                                    *)
(***************************************************************************)
MaxClauses == 2      \* clauses of a generated frequency-list string
MaxParts == 4        \* phrases of a generated statistics sentence
MaxLoadRows == 2     \* rows of a report whose numeric columns are studied
MaxRows == 2         \* rows of a report whose users and segments are studied
MaxEntries == 2      \* clauses of a frequency cell of the rendered row
MaxCount == 2        \* largest count written in such a cell

(***************************************************************************)
(* Values.                                                                 *)
(***************************************************************************)
\* A missing cell, for which pd.isna(x) is True.  It is kept apart from every
\* str by a character no str holds.
NaN == <<"<NaN>">>

DigitChars == {"0", "1", "2", "3", "4", "5", "6", "7", "8", "9"}
WhiteChars == {" "}

DigitVal(c) ==
    CASE c = "0" -> 0 [] c = "1" -> 1 [] c = "2" -> 2 [] c = "3" -> 3
      [] c = "4" -> 4 [] c = "5" -> 5 [] c = "6" -> 6 [] c = "7" -> 7
      [] c = "8" -> 8 [] c = "9" -> 9

\* The characters of a str as a set.
Chars(s) == {s[i] : i \in 1..Len(s)}

\* str.join: the pieces with sep between them.
RECURSIVE Join(_, _)
Join(pieces, sep) ==
    IF pieces = <<>> THEN <<>>
    ELSE IF Len(pieces) = 1 THEN pieces[1]
    ELSE pieces[1] \o sep \o Join(Tail(pieces), sep)

(***************************************************************************)
(* Python string primitives used by the parsers.                           *)
(***************************************************************************)
\* s.split(sep) for a one-character sep: always at least one piece.
RECURSIVE Split(_, _)
Split(s, sep) ==
    IF sep \notin Chars(s) THEN <<s>>
    ELSE LET i == CHOOSE k \in 1..Len(s) :
                      s[k] = sep /\ \A j \in 1..(k - 1) : s[j] # sep
         IN  <<SubSeq(s, 1, i - 1)>> \o Split(SubSeq(s, i + 1, Len(s)), sep)

\* s.strip(): leading and trailing whitespace removed.
RECURSIVE LStrip(_, _)
LStrip(s, cs) == IF s # <<>> /\ s[1] \in cs THEN LStrip(Tail(s), cs) ELSE s

RECURSIVE RStrip(_, _)
RStrip(s, cs) ==
    IF s # <<>> /\ s[Len(s)] \in cs THEN RStrip(SubSeq(s, 1, Len(s) - 1), cs)
    ELSE s

Strip(s, cs) == RStrip(LStrip(s, cs), cs)

\* re.sub(r'[^0-9]', '', s): every character that is not a digit removed.
ReSubNonDigits(s) == SelectSeq(s, LAMBDA c : c \in DigitChars)

\* int(s) of a str of ASCII digits; int('') raises ValueError.
RECURSIVE IntOfDigits(_)
IntOfDigits(ds) ==
    IF ds = <<>> THEN 0
    ELSE 10 * IntOfDigits(SubSeq(ds, 1, Len(ds) - 1)) + DigitVal(ds[Len(ds)])

(***************************************************************************)
(* parse_key_value_string (app.py 144-150).                                *)
(* A DataFrame is the sequence of its rows in positional order; idx is the *)
(* row's index label (0.. for a fresh frame).                              *)
(***************************************************************************)
EmptyTable == <<>>

\* items = [item.split(':') for item in data_string.split(';')]
ItemsOf(data_string) ==
    LET cl == Split(data_string, ";")
    IN  [i \in 1..Len(cl) |-> Split(cl[i], ":")]

\* item[1] of one item after the non-digits are removed
CountDigitsFlawed(item) == ReSubNonDigits(Join(Tail(item), <<>>))
CountDigits(item) == ReSubNonDigits(item[2])

\* item[0].strip()
LabelUntrimmed(item) == item[1]
LabelOf(item) == Strip(item[1], WhiteChars)

ParseKVKeepGood(data_string) ==
    IF data_string = NaN THEN EmptyTable
    ELSE LET items == ItemsOf(data_string)
             good == SelectSeq(items,
                        LAMBDA it : Len(it) >= 2 /\ CountDigits(it) # <<>>)
         IN  [i \in 1..Len(good) |->
                 [idx |-> i - 1, hangmok |-> LabelOf(good[i]),
                  bindo |-> IntOfDigits(CountDigits(good[i]))]]

parse_key_value_string(data_string) ==
    IF data_string = NaN THEN EmptyTable
    ELSE LET items == ItemsOf(data_string)
         IN  IF \E i \in 1..Len(items) : Len(items[i]) < 2
               THEN EmptyTable                       \* IndexError, caught
             ELSE IF \E i \in 1..Len(items) : CountDigits(items[i]) = <<>>
               THEN EmptyTable                       \* ValueError, caught
             ELSE [i \in 1..Len(items) |->
                     [idx |-> i - 1, hangmok |-> LabelOf(items[i]),
                      bindo |-> IntOfDigits(CountDigits(items[i]))]]

(***************************************************************************)
(* Inputs of the frequency-list parser: NaN, or up to MaxClauses clauses   *)
(* joined by ';', each clause a label, an optional ':' and a count text.   *)
(***************************************************************************)
KVLabels == { <<"a">>, <<" ", "b", " ">>, <<>> }
KVSeps == { <<":">>, <<>> }
KVCounts == { <<"3">>, <<"0", "5">>, <<"x", "2", "x">>, <<"1", ",", "2">>,
              <<"x", "x">>, <<"1", ":", "2">>, <<":", "5">>, <<>> }
KVClauseSet == [label : KVLabels, sep : KVSeps, count : KVCounts]

ClauseText(c) == c.label \o c.sep \o c.count

\* q is a sequence of at most n elements of S
IsSeqUpTo(q, S, n) == \E k \in 0..n : q \in [1..k -> S]

KVString(clauses) == Join([i \in 1..Len(clauses) |-> ClauseText(clauses[i])], <<";">>)

KVInputs ==
    /\ IsSeqUpTo(kvClauses, KVClauseSet, MaxClauses)
    /\ kvIn \in (IF kvClauses = <<>> THEN {NaN, <<>>} ELSE {KVString(kvClauses)})
    /\ kvOut = EmptyTable
    /\ kvPc = "call"

IdleKV == kvClauses = <<>> /\ kvIn = NaN /\ kvOut = EmptyTable /\ kvPc = "call"

ParseKV ==
    /\ kvPc = "call"
    /\ kvOut' = parse_key_value_string(kvIn)
    /\ kvPc' = "return"
    /\ UNCHANGED <<kvClauses, kvIn, stParts, stIn, stOut, stPc, appVars>>

NoStats == [raised |-> FALSE, pyeonggyun |-> [mant |-> 0, scale |-> 0],
            choeso |-> 0, choedae |-> 0, danwi |-> <<>>]

IdleStats == stParts = <<>> /\ stIn = NaN /\ stOut = NoStats /\ stPc = "call"



(***************************************************************************)
(* What the frequency-list claims say, stated on the text of the clauses   *)
(* and not through the parser's own steps.                                 *)
(***************************************************************************)
FirstIndex(s, ch) == CHOOSE k \in 1..Len(s) : s[k] = ch /\ \A j \in 1..(k - 1) : s[j] # ch
BeforeFirst(s, ch) == IF ch \in Chars(s) THEN SubSeq(s, 1, FirstIndex(s, ch) - 1) ELSE s
AfterFirst(s, ch) == IF ch \in Chars(s) THEN SubSeq(s, FirstIndex(s, ch) + 1, Len(s)) ELSE <<>>

\* s without its leading and trailing blanks
Trimmed(s) ==
    LET inked == {i \in 1..Len(s) : s[i] \notin WhiteChars}
    IN  IF inked = {} THEN <<>>
        ELSE SubSeq(s, CHOOSE i \in inked : \A j \in inked : i <= j,
                       CHOOSE i \in inked : \A j \in inked : i >= j)

RECURSIVE Pow10(_)
Pow10(n) == IF n = 0 THEN 1 ELSE 10 * Pow10(n - 1)

\* the number a digit string denotes, by the weight of each position
RECURSIVE DecimalValue(_)
DecimalValue(ds) ==
    IF ds = <<>> THEN 0
    ELSE DigitVal(Head(ds)) * Pow10(Len(ds) - 1) + DecimalValue(Tail(ds))

OnlyDigits(s) == SelectSeq(s, LAMBDA c : c \in DigitChars)
HasDigit(s) == Chars(s) \cap DigitChars # {}

KVTexts == [i \in 1..Len(kvClauses) |-> ClauseText(kvClauses[i])]

WellFormedClause(c) ==
    /\ c.sep = <<":">>
    /\ Chars(c.label) \cap {":", ";"} = {}
    /\ c.count # <<>>
    /\ Chars(c.count) \subseteq DigitChars

WellFormedKV ==
    /\ kvIn # NaN
    /\ Len(kvClauses) >= 1
    /\ \A i \in 1..Len(kvClauses) : WellFormedClause(kvClauses[i])

\* C1: a well-formed string "l1:c1;...;ln:cn" parses to exactly n rows, the
\* i-th being (li trimmed, ci as an integer), in the order of the clauses.
C1_WellFormedParsesExactly ==
    (kvPc = "return" /\ WellFormedKV) =>
        kvOut = [i \in 1..Len(kvClauses) |->
                    [idx |-> i - 1, hangmok |-> Trimmed(kvClauses[i].label),
                     bindo |-> DecimalValue(kvClauses[i].count)]]

\* C1 witness: a well-formed string of two clauses has been parsed.
C1_Witness ==
    /\ kvPc = "return" /\ WellFormedKV
    /\ Len(kvClauses) = 2 /\ Len(kvOut) = 2
    /\ kvClauses[1].label = <<" ", "b", " ">> /\ kvOut[1].hangmok = <<"b">>
    /\ kvClauses[2].count = <<"0", "5">> /\ kvOut[2].bindo = 5

\* a clause without ':' or without a digit anywhere after its first ':'
BadClauseText(t) == ":" \notin Chars(t) \/ ~HasDigit(AfterFirst(t, ":"))

\* C2: for a missing input (NaN or the empty string) and for every string in
\* which some clause lacks ':' or has no digit in its count portion, the
\* result is the empty table; the well-formed clauses alone are never returned.
C2_FailSoftAllOrNothing ==
    (/\ kvPc = "return"
     /\ \/ kvIn = NaN
        \/ kvIn = <<>>
        \/ \E i \in 1..Len(kvClauses) : BadClauseText(KVTexts[i]))
    => kvOut = EmptyTable

\* C2 witness: a string with one good and one malformed clause has been parsed.
C2_Witness ==
    /\ kvPc = "return" /\ kvIn # NaN /\ Len(kvClauses) = 2
    /\ WellFormedClause(kvClauses[1])
    /\ BadClauseText(KVTexts[2])
    /\ kvOut = EmptyTable

EveryClauseHasCount ==
    /\ kvIn # NaN
    /\ Len(kvClauses) >= 1
    /\ \A i \in 1..Len(kvClauses) :
          ":" \in Chars(KVTexts[i]) /\ HasDigit(AfterFirst(KVTexts[i], ":"))

\* C9 as claimed: the count of a clause is formed by the digits of the entire
\* portion after its first ':' (a count portion that itself contains ':'
\* contributes all of its digits).
C9_CountIsAllDigitsAfterFirstColon ==
    (kvPc = "return" /\ EveryClauseHasCount) =>
        kvOut = [i \in 1..Len(kvClauses) |->
                    [idx |-> i - 1,
                     hangmok |-> Trimmed(BeforeFirst(KVTexts[i], ":")),
                     bindo |-> DecimalValue(OnlyDigits(AfterFirst(KVTexts[i], ":")))]]

\* the text between the first ':' of a clause and its next ':' (or its end)
SecondField(t) == BeforeFirst(AfterFirst(t, ":"), ":")

\* C9 as amended: the label is the trimmed text before the first ':' and the
\* count is formed by the digits of the text between the first ':' and the
\* next ':' (or the end of the clause); text after a second ':' is ignored,
\* and a clause with no digit in that text empties the whole table.
C9_CountIsDigitsOfSecondField ==
    (kvPc = "return" /\ kvIn # NaN /\ Len(kvClauses) >= 1
       /\ \A i \in 1..Len(kvClauses) : ":" \in Chars(KVTexts[i])) =>
        IF \A i \in 1..Len(kvClauses) : HasDigit(SecondField(KVTexts[i]))
        THEN kvOut = [i \in 1..Len(kvClauses) |->
                        [idx |-> i - 1,
                         hangmok |-> Trimmed(BeforeFirst(KVTexts[i], ":")),
                         bindo |-> DecimalValue(OnlyDigits(SecondField(KVTexts[i])))]]
        ELSE kvOut = EmptyTable

\* C9 witness: a clause whose count portion itself contains a colon has been
\* parsed.
C9_Witness ==
    /\ kvPc = "return" /\ Len(kvClauses) = 2
    /\ KVTexts[1] = <<"a", ":", "1", ":", "2">>
    /\ KVTexts[2] = <<" ", "b", " ", ":", "x", "2", "x">>
    /\ Len(kvOut) = 2 /\ kvOut[1].bindo = 1 /\ kvOut[2].bindo = 2


(***************************************************************************)
(* parse_stats_string (app.py 152-158).                                    *)
(***************************************************************************)
NumChars == DigitChars \cup {"."}          \* the class [\d\.]
NoMatch == <<"<None>">>                     \* re.search found nothing

\* the longest prefix of s made of characters of cs
RECURSIVE TakeWhile(_, _)
TakeWhile(s, cs) ==
    IF s # <<>> /\ s[1] \in cs THEN <<s[1]>> \o TakeWhile(Tail(s), cs) ELSE <<>>

\* re.search(word + r" ([\d\.]+)", s): group(1) of the leftmost match
ReSearchNumberAfter(word, s) ==
    LET pat == word \o <<" ">>
        hits == {i \in 1..Len(s) :
                    /\ i + Len(pat) <= Len(s)
                    /\ SubSeq(s, i, i + Len(pat) - 1) = pat
                    /\ s[i + Len(pat)] \in NumChars}
    IN  IF hits = {} THEN NoMatch
        ELSE LET i == CHOOSE h \in hits : \A g \in hits : h <= g
             IN  TakeWhile(SubSeq(s, i + Len(pat), Len(s)), NumChars)

\* re.search(r"([\S]+)\s*$", s): the last run of non-blank characters
ReSearchLastToken(s) ==
    LET t == RStrip(s, WhiteChars)
        blanks == {i \in 1..Len(t) : t[i] \in WhiteChars}
    IN  IF t = <<>> THEN NoMatch
        ELSE IF blanks = {} THEN t
        ELSE SubSeq(t, (CHOOSE i \in blanks : \A j \in blanks : i >= j) + 1, Len(t))

\* unit.group(1).strip(',') if unit else ''
UnitUnstripped(m) == IF m = NoMatch THEN <<>> ELSE m
UnitOf(m) == IF m = NoMatch THEN <<>> ELSE Strip(m, {","})

\* float(text) accepts digits with at most one '.', and at least one digit
FloatAccepts(text) ==
    /\ Chars(text) \cap DigitChars # {}
    /\ Cardinality({i \in 1..Len(text) : text[i] = "."}) <= 1

\* int(text) accepts digits only
IntAccepts(text) == text # <<>> /\ Chars(text) \subseteq DigitChars

\* A float is mant / 10^scale with no trailing zero in the fraction.
RECURSIVE Normal(_)
Normal(f) ==
    IF f.scale > 0 /\ f.mant % 10 = 0
    THEN Normal([mant |-> f.mant \div 10, scale |-> f.scale - 1])
    ELSE f

FloatOf(text) ==
    Normal([mant |-> IntOfDigits(ReSubNonDigits(text)),
            scale |-> Len(ReSubNonDigits(AfterFirst(text, ".")))])

Zero == [mant |-> 0, scale |-> 0]

Raised == [raised |-> TRUE, pyeonggyun |-> Zero, choeso |-> 0, choedae |-> 0,
           danwi |-> <<>>]

word_pyeonggyun == <<"pyeong", "gyun">>     \* the word 평균
word_choeso == <<"choe", "so">>        \* the word 최소
word_choedae == <<"choe", "dae">>        \* the word 최대

parse_stats_string(stats_string) ==
    IF stats_string = NaN THEN NoStats
    ELSE LET avg == ReSearchNumberAfter(word_pyeonggyun, stats_string)
             min_val == ReSearchNumberAfter(word_choeso, stats_string)
             max_val == ReSearchNumberAfter(word_choedae, stats_string)
             unit == ReSearchLastToken(stats_string)
         IN  IF \/ avg # NoMatch /\ ~FloatAccepts(avg)
                \/ min_val # NoMatch /\ ~IntAccepts(min_val)
                \/ max_val # NoMatch /\ ~IntAccepts(max_val)
             THEN Raised                      \* ValueError leaves the function
             ELSE [raised |-> FALSE,
                   pyeonggyun |-> IF avg # NoMatch THEN FloatOf(avg) ELSE Zero,
                   choeso |-> IF min_val # NoMatch THEN IntOfDigits(min_val) ELSE 0,
                   choedae |-> IF max_val # NoMatch THEN IntOfDigits(max_val) ELSE 0,
                   danwi |-> UnitOf(unit)]

(***************************************************************************)
(* Inputs of the statistics parser: NaN, or up to MaxParts phrases joined  *)
(* by single blanks.  Each phrase records what it says: the field it       *)
(* names, whether its number is one the field's type can hold, the number, *)
(* or the unit it stands for.                                              *)
(***************************************************************************)
StatPhrases == {
    [kind |-> "avg", text |-> word_pyeonggyun \o <<" ", "1", "2", ".", "3", ",">>,
     plain |-> TRUE, num |-> [mant |-> 123, scale |-> 1], unit |-> <<>>],
    [kind |-> "avg", text |-> word_pyeonggyun \o <<" ", "4", ",">>,
     plain |-> TRUE, num |-> [mant |-> 4, scale |-> 0], unit |-> <<>>],
    [kind |-> "avg", text |-> word_pyeonggyun \o <<" ", "1", ".", "2", ".", "3">>,
     plain |-> FALSE, num |-> Zero, unit |-> <<>>],
    [kind |-> "min", text |-> word_choeso \o <<" ", "1", ",">>,
     plain |-> TRUE, num |-> [mant |-> 1, scale |-> 0], unit |-> <<>>],
    [kind |-> "min", text |-> word_choeso \o <<" ", "1", ".", "5", ",">>,
     plain |-> FALSE, num |-> [mant |-> 15, scale |-> 1], unit |-> <<>>],
    [kind |-> "max", text |-> word_choedae \o <<" ", "3", "0">>,
     plain |-> TRUE, num |-> [mant |-> 30, scale |-> 0], unit |-> <<>>],
    [kind |-> "unit", text |-> <<"il">>,
     plain |-> TRUE, num |-> Zero, unit |-> <<"il">>],
    [kind |-> "unit", text |-> <<"gae", ",">>,
     plain |-> TRUE, num |-> Zero, unit |-> <<"gae">>] }

StatsString(parts) == Join([i \in 1..Len(parts) |-> parts[i].text], <<" ">>)

StatsInputs ==
    /\ IsSeqUpTo(stParts, StatPhrases, MaxParts)
    /\ stIn \in (IF stParts = <<>> THEN {NaN, <<>>} ELSE {StatsString(stParts)})
    /\ stOut = NoStats
    /\ stPc = "call"

ParseStats ==
    /\ stPc = "call"
    /\ stOut' = parse_stats_string(stIn)
    /\ stPc' = "return"
    /\ UNCHANGED <<kvClauses, kvIn, kvOut, kvPc, stParts, stIn, appVars>>


(***************************************************************************)
(* What the statistics claims say, stated on the phrases of the sentence.  *)
(***************************************************************************)
KindsOf(parts) == {parts[i].kind : i \in 1..Len(parts)}

\* the first phrase of a kind
FirstOfKind(parts, k) ==
    parts[CHOOSE i \in 1..Len(parts) :
              parts[i].kind = k /\ \A j \in 1..(i - 1) : parts[j].kind # k]

\* C3 as claimed: parse_stats_string raises no error for NaN and for every
\* string; a numeric token that is not found yields 0 and a missing unit
\* yields the empty string.
C3_StatsNeverFails ==
    stPc = "return" =>
        /\ ~stOut.raised
        /\ "avg" \notin KindsOf(stParts) => stOut.pyeonggyun = Zero
        /\ "min" \notin KindsOf(stParts) => stOut.choeso = 0
        /\ "max" \notin KindsOf(stParts) => stOut.choedae = 0
        /\ stParts = <<>> => stOut.danwi = <<>>

\* A sentence of the claimed shape: the three tokens, or all but one of them,
\* each once and followed by a number of its field's type, then a unit token.
RangeSentence ==
    /\ stIn # NaN
    /\ Len(stParts) >= 3
    /\ stParts[Len(stParts)].kind = "unit"
    /\ \A i \in 1..(Len(stParts) - 1) :
          /\ stParts[i].kind \in {"avg", "min", "max"}
          /\ stParts[i].plain
          /\ \A j \in 1..(Len(stParts) - 1) : j # i => stParts[j].kind # stParts[i].kind

ExpectedNum(k) == IF k \in KindsOf(stParts) THEN FirstOfKind(stParts, k).num ELSE Zero

\* C10: for such a sentence the average is the float after 평균, minimum and
\* maximum are the integers after 최소 and 최대, the unit is the last token
\* without its trailing comma; an absent token gives 0 and leaves the other
\* fields as they are.
C10_RangeSentenceParses ==
    (stPc = "return" /\ RangeSentence) =>
        stOut = [raised |-> FALSE,
                 pyeonggyun |-> ExpectedNum("avg"),
                 choeso |-> ExpectedNum("min").mant,
                 choedae |-> ExpectedNum("max").mant,
                 danwi |-> stParts[Len(stParts)].unit]

\* C10 witness: a sentence with average, maximum and unit but no minimum has
\* been parsed.
C10_Witness ==
    /\ stPc = "return" /\ RangeSentence
    /\ KindsOf(stParts) = {"avg", "max", "unit"}
    /\ stParts[Len(stParts)].text = <<"gae", ",">>
    /\ stOut.pyeonggyun = [mant |-> 123, scale |-> 1]
    /\ stOut.choeso = 0 /\ stOut.choedae = 30 /\ stOut.danwi = <<"gae">>


(***************************************************************************)
(* load_data (app.py 128-142): pd.read_csv and the column normalisation.   *)
(* A cell of the file is its text (<<>> for an empty cell).  A cell of the *)
(* frame is an int, a float (mant / 10^scale), NaN or a str.               *)
(***************************************************************************)
IntVal(n) == [t |-> "int", mant |-> n, scale |-> 0, text |-> <<>>]
FloatVal(f) == [t |-> "float", mant |-> f.mant, scale |-> f.scale, text |-> <<>>]
NanVal == [t |-> "nan", mant |-> 0, scale |-> 0, text |-> <<>>]
StrVal(s) == [t |-> "str", mant |-> 0, scale |-> 0, text |-> s]

\* what read_csv takes one cell for
CellKind(text) ==
    IF text = <<>> THEN "missing"
    ELSE IF IntAccepts(text) THEN "int"
    ELSE IF FloatAccepts(text) THEN "float"
    ELSE "str"

\* the dtype read_csv gives a column: int64 when every cell is an integer,
\* float64 when every cell is a number or missing, object otherwise
ColumnDtype(texts) ==
    LET kinds == {CellKind(texts[i]) : i \in 1..Len(texts)}
    IN  IF texts = <<>> \/ "str" \in kinds THEN "object"
        ELSE IF kinds \subseteq {"int"} THEN "int64"
        ELSE "float64"

ReadCell(text, dtype) ==
    IF text = <<>> THEN NanVal
    ELSE IF dtype = "object" THEN StrVal(text)
    ELSE IF dtype = "int64" THEN IntVal(IntOfDigits(text))
    ELSE FloatVal(FloatOf(text))

\* s.replace('%', '')
RemoveChar(s, ch) == SelectSeq(s, LAMBDA c : c # ch)

\* line 137, one cell of an object column; NaN stays NaN
ReorderCell(v) ==
    IF v.t = "str" THEN FloatVal(FloatOf(RemoveChar(v.text, "%"))) ELSE v

ReorderRaises(v) == v.t = "str" /\ ~FloatAccepts(RemoveChar(v.text, "%"))

\* int(x) of a float: the fraction is cut off
Truncate(f) == f.mant \div Pow10(f.scale)

\* line 139, one cell of an object column:
\* pd.to_numeric(errors='coerce'), fillna(0), astype(int)
TotalOrdersCell(v) ==
    IF v.t = "str" /\ IntAccepts(v.text) THEN IntVal(IntOfDigits(v.text))
    ELSE IF v.t = "str" /\ FloatAccepts(v.text) THEN IntVal(Truncate(FloatOf(v.text)))
    ELSE IntVal(0)

NoneDf == [none |-> TRUE, raised |-> FALSE, rows |-> <<>>]
RaisedDf == [none |-> TRUE, raised |-> TRUE, rows |-> <<>>]

Column(rows, name) == [i \in 1..Len(rows) |-> rows[i][name]]

load_data(f) ==
    IF ~f.exists THEN NoneDf                          \* st.error, return None
    ELSE
      LET ro_dtype == ColumnDtype(Column(f.rows, "reorder_ratio"))
          to_dtype == ColumnDtype(Column(f.rows, "total_orders"))
          read == [i \in 1..Len(f.rows) |->
                     [f.rows[i] EXCEPT
                        !.reorder_ratio = ReadCell(@, ro_dtype),
                        !.total_orders = ReadCell(@, to_dtype)]]
      IN  IF ro_dtype = "object"
             /\ \E i \in 1..Len(read) : ReorderRaises(read[i].reorder_ratio)
          THEN RaisedDf                               \* astype(float) raises
          ELSE [none |-> FALSE, raised |-> FALSE,
                rows |-> [i \in 1..Len(read) |->
                    [read[i] EXCEPT
                       !.reorder_ratio =
                           IF ro_dtype = "object" THEN ReorderCell(@) ELSE @,
                       !.total_orders =
                           IF to_dtype = "object" THEN TotalOrdersCell(@) ELSE @]]]

(***************************************************************************)
(* The cells of a report row.                                              *)
(***************************************************************************)
wol == <<"wol">>
hwa == <<"hwa">>
word_produce == <<"p", "r", "o", "d", "u", "c", "e">>
word_dairy == <<"d", "a", "i", "r", "y">>
jeonche == "jeonche"                  \* the option '전체' (all segments)
NoneId == "None"                      \* a selectbox without options

DigitText(n) == <<<<"0", "1", "2", "3", "4", "5", "6", "7", "8", "9">>[n + 1]>>

FreqString(es) ==
    Join([i \in 1..Len(es) |-> es[i].label \o <<":">> \o DigitText(es[i].count)],
         <<";">>)

\* a typical sentence and typical frequency strings
TypicalStats ==
    word_pyeonggyun \o <<" ", "1", "2", ".", "3", ",", " ">>
        \o word_choeso \o <<" ", "1", ",", " ">>
        \o word_choedae \o <<" ", "3", "0", " ", "il">>
TypicalDow == FreqString(<<[label |-> wol, count |-> 1], [label |-> hwa, count |-> 2]>>)
TypicalHour == FreqString(<<[label |-> <<"9", "si">>, count |-> 2],
                            [label |-> <<"1", "0", "si">>, count |-> 1]>>)
TypicalDept == FreqString(<<[label |-> word_produce, count |-> 2],
                            [label |-> word_dairy, count |-> 1]>>)
TypicalAisle == FreqString(<<[label |-> <<"a">>, count |-> 2],
                             [label |-> <<"b">>, count |-> 1]>>)

ReportRow(u, g, orders, ratio, os, bs, dow, hour, dept, aisle) ==
    [user_id |-> u, segment |-> g, total_orders |-> orders, reorder_ratio |-> ratio,
     days_since_prior_order_stats |-> os, basket_size_stats |-> bs,
     dow_counts |-> dow, hour_counts |-> hour,
     department_counts |-> dept, aisle_counts |-> aisle]

TypicalRow(u, g) ==
    ReportRow(u, g, <<"1", "2">>, <<"4", "5", ".", "2", "%">>, TypicalStats,
              TypicalStats, TypicalDow, TypicalHour, TypicalDept, TypicalAisle)

NoRow == ReportRow(NoneId, NoneId, NanVal, NanVal, NaN, NaN, NaN, NaN, NaN, NaN)

NoFile == [exists |-> FALSE, rows |-> <<>>]
FileOf(rows) == [exists |-> TRUE, rows |-> rows]

(***************************************************************************)
(* The script run, top to bottom.                                          *)
(***************************************************************************)
NoKpi == [max_dow |-> [hangmok |-> <<>>, bindo |-> 0],
          max_hour |-> [hangmok |-> <<>>, bindo |-> 0],
          produce_pct |-> [num |-> 0, den |-> 1],
          top_aisle |-> [hangmok |-> <<>>, bindo |-> 0],
          top_aisle_pct |-> [num |-> 0, den |-> 1]]

\* the script's names before any line has run
ScriptStart ==
    /\ pc = "start"
    /\ df = NoneDf
    /\ rendered = {}
    /\ selected_segment = NoneId /\ selected_user_id = NoneId
    /\ user_data = <<>> /\ user_info = NoRow
    /\ order_stats = NoStats /\ basket_stats = NoStats
    /\ dow_df = EmptyTable /\ hour_df = EmptyTable
    /\ dept_df = EmptyTable /\ aisle_df = EmptyTable
    /\ kpi = NoKpi

IdleApp == file = NoFile /\ cache = [filled |-> FALSE, value |-> NoneDf] /\ ScriptStart

\* lines 128-142 and 218: df = load_data(...), memoised by st.cache_data
LoadData ==
    /\ pc = "start"
    /\ LET out == IF cache.filled THEN cache.value ELSE load_data(file)
       IN  /\ df' = out
           /\ cache' = IF out.raised THEN cache ELSE [filled |-> TRUE, value |-> out]
           /\ rendered' = IF out.raised THEN {"exception"}
                          ELSE IF out.none THEN {"error"} ELSE {}
           /\ pc' = IF out.raised THEN "crashed" ELSE "loaded"
    /\ UNCHANGED <<file, pickVars, statVars, tableVars, kpi, parserVars>>

\* line 219 without its st.stop()
NeverStops ==
    /\ pc = "loaded"
    /\ pc' = "sidebar"
    /\ UNCHANGED <<loadVars, rendered, pickVars, statVars, tableVars, kpi, parserVars>>

\* line 219: if df is None: st.stop()
StopIfNone ==
    /\ pc = "loaded"
    /\ pc' = IF df.none THEN "stopped" ELSE "sidebar"
    /\ UNCHANGED <<loadVars, rendered, pickVars, statVars, tableVars, kpi, parserVars>>

SegmentsOf(rows) == {rows[i].segment : i \in 1..Len(rows)}
UserIdsOf(rows) == {rows[i].user_id : i \in 1..Len(rows)}

\* lines 225-226
filtered_df ==
    IF selected_segment = jeonche THEN df.rows
    ELSE SelectSeq(df.rows, LAMBDA r : r.segment = selected_segment)

\* lines 222-224: the segment selectbox; df['segment'] raises on None
SelectSegment ==
    /\ pc = "sidebar"
    /\ \E seg \in {jeonche} \cup SegmentsOf(df.rows) :
          /\ selected_segment' = IF df.none THEN selected_segment ELSE seg
          /\ rendered' = rendered \cup
                (IF df.none THEN {"sidebar_header", "exception"}
                 ELSE {"sidebar_header", "segment_select"})
          /\ pc' = IF df.none THEN "crashed" ELSE "segment"
    /\ UNCHANGED <<loadVars, selected_user_id, user_data, user_info,
                   statVars, tableVars, kpi, parserVars>>

\* lines 225-228: the user selectbox over the ids of the filtered rows
SelectUser ==
    /\ pc = "segment"
    /\ \E uid \in (IF filtered_df = <<>> THEN {NoneId} ELSE UserIdsOf(filtered_df)) :
          selected_user_id' = uid
    /\ rendered' = rendered \cup {"user_select"}
    /\ pc' = "user"
    /\ UNCHANGED <<loadVars, selected_segment, user_data, user_info,
                   statVars, tableVars, kpi, parserVars>>

\* lines 231-244 and 553-554: the rows of the user, the header or the warning
UserData ==
    /\ pc = "user"
    /\ user_data' = SelectSeq(df.rows, LAMBDA r : r.user_id = selected_user_id)
    /\ IF user_data' = <<>>
       THEN /\ user_info' = user_info
            /\ rendered' = rendered \cup {"title", "warning"}
            /\ pc' = "done"
       ELSE /\ user_info' = user_data'[1]
            /\ rendered' = rendered \cup {"title", "header", "profile"}
            /\ pc' = "summary"
    /\ UNCHANGED <<loadVars, selected_segment, selected_user_id,
                   statVars, tableVars, kpi, parserVars>>


(***************************************************************************)
(* The report of one user (lines 236-551).                                 *)
(***************************************************************************)
\* an uncaught exception ends the script run; Streamlit shows it
Crash ==
    /\ rendered' = rendered \cup {"exception"}
    /\ pc' = "crashed"

\* lines 246-316: the two Range Statistics and their cards
Summary ==
    /\ pc = "summary"
    /\ LET o == parse_stats_string(user_info.days_since_prior_order_stats)
           b == parse_stats_string(user_info.basket_size_stats)
       IN  IF o.raised
           THEN Crash /\ UNCHANGED statVars
           ELSE IF b.raised
           THEN Crash /\ order_stats' = o /\ UNCHANGED basket_stats
           ELSE /\ order_stats' = o
                /\ basket_stats' = b
                /\ rendered' = rendered \cup {"stats_cards", "insight"}
                /\ pc' = "tables"
    /\ UNCHANGED <<loadVars, pickVars, tableVars, kpi, parserVars>>

\* lines 337-345: the four Frequency Tables
ParseTables ==
    /\ pc = "tables"
    /\ dow_df' = parse_key_value_string(user_info.dow_counts)
    /\ hour_df' = parse_key_value_string(user_info.hour_counts)
    /\ dept_df' = parse_key_value_string(user_info.department_counts)
    /\ aisle_df' = parse_key_value_string(user_info.aisle_counts)
    /\ rendered' = rendered \cup {"pattern_title"}
    /\ pc' = "dow"
    /\ UNCHANGED <<loadVars, pickVars, statVars, kpi, parserVars>>

\* the orders of the rows of t that sort_values may produce: ascending by
\* Key, rows whose key is missing last and in their former order; the order
\* of rows with equal keys is whatever the sort of the build gives
Orderings(t) ==
    {f \in [1..Len(t) -> 1..Len(t)] : \A i, j \in 1..Len(t) : i # j => f[i] # f[j]}

\* sort_values by a key column: key[i] is the key of row i, missing if NaN;
\* rows with a missing key come last in their original order, and rows of
\* equal key come in any order (the default sort is not stable)
SortValues(t, key) ==
    {[i \in 1..Len(t) |-> t[f[i]]] : f \in
        {g \in Orderings(t) : \A i, j \in 1..Len(t) : i < j =>
            IF key[g[i]].missing THEN key[g[j]].missing /\ g[i] < g[j]
            ELSE key[g[j]].missing \/ key[g[i]].val <= key[g[j]].val}}

dow_order == <<wol, hwa, <<"su">>, <<"mok">>, <<"geum">>, <<"to">>, <<"il">>>>

\* the code of a day in the categorical
DayCode(label) == CHOOSE k \in 1..Len(dow_order) : dow_order[k] = label

\* line 357: pd.Categorical(..., categories=dow_order): other labels are NaN
Categorical(t) ==
    [i \in 1..Len(t) |->
        [t[i] EXCEPT !.hangmok =
            IF \E k \in 1..Len(dow_order) : dow_order[k] = @ THEN @ ELSE NaN]]

\* line 358: the sort key of the day column, the code of the category
DowKeys(t) ==
    [i \in 1..Len(t) |->
        IF t[i].hangmok = NaN THEN [missing |-> TRUE, val |-> 0]
        ELSE [missing |-> FALSE, val |-> DayCode(t[i].hangmok)]]

\* lines 351-364: the day-of-week chart; dow_df is reordered Mon..Sun
DowChart ==
    /\ pc = "dow"
    /\ \E sorted \in (IF dow_df = EmptyTable THEN {dow_df}
                      ELSE SortValues(Categorical(dow_df), DowKeys(Categorical(dow_df)))) :
          dow_df' = sorted
    /\ rendered' = rendered \cup
          (IF dow_df = EmptyTable THEN {"dow_card"} ELSE {"dow_card", "dow_chart"})
    /\ pc' = "hour"
    /\ UNCHANGED <<loadVars, pickVars, statVars, hour_df, dept_df, aisle_df,
                   kpi, parserVars>>

\* str.extract('(\d+)'): the first run of digits of a label, NoMatch if none
RECURSIVE ExtractDigits(_)
ExtractDigits(label) ==
    IF label = <<>> THEN NoMatch
    ELSE IF label[1] \in DigitChars THEN TakeWhile(label, DigitChars)
    ELSE ExtractDigits(Tail(label))


WithSigan(t) ==
    [i \in 1..Len(t) |->
        [idx |-> t[i].idx, hangmok |-> t[i].hangmok, bindo |-> t[i].bindo,
         sigan |-> IntOfDigits(ExtractDigits(t[i].hangmok))]]

\* astype(int) raises on a label without a digit
HourRaises(t) == \E i \in 1..Len(t) : ExtractDigits(t[i].hangmok) = NoMatch

\* line 371: the sort key of the hour table, the integer column
HourKeys(t) == [i \in 1..Len(t) |-> [missing |-> FALSE, val |-> t[i].sigan]]

\* lines 366-414: the hour chart; hour_df is reordered by hour
HourChart ==
    /\ pc = "hour"
    /\ \E sorted \in (IF hour_df = EmptyTable \/ HourRaises(hour_df) THEN {hour_df}
                      ELSE SortValues(WithSigan(hour_df), HourKeys(WithSigan(hour_df)))) :
          hour_df' = sorted
    /\ IF hour_df # EmptyTable /\ HourRaises(hour_df)
       THEN /\ rendered' = rendered \cup {"hour_card", "exception"}
            /\ pc' = "crashed"
       ELSE /\ rendered' = rendered \cup
                (IF hour_df = EmptyTable THEN {"hour_card"}
                 ELSE {"hour_card", "hour_chart"})
            /\ pc' = "category"
    /\ UNCHANGED <<loadVars, pickVars, statVars, dow_df, dept_df, aisle_df,
                   kpi, parserVars>>

\* lines 417-466: the department and aisle charts
CategoryCharts ==
    /\ pc = "category"
    /\ rendered' = rendered \cup {"dept_card", "aisle_card"}
          \cup (IF dept_df = EmptyTable THEN {} ELSE {"dept_chart"})
          \cup (IF aisle_df = EmptyTable THEN {} ELSE {"aisle_chart"})
    /\ pc' = "kpi"
    /\ UNCHANGED <<loadVars, pickVars, statVars, tableVars, kpi, parserVars>>

Counts(t) == {t[i].bindo : i \in 1..Len(t)}
MaxOf(S) == CHOOSE m \in S : \A n \in S : m >= n

RECURSIVE Sum(_)
Sum(t) == IF t = <<>> THEN 0 ELSE t[1].bindo + Sum(Tail(t))

\* Series.idxmax(): the index label of the first row holding the maximum
IdxMaxLast(t) ==
    t[CHOOSE i \in 1..Len(t) :
        /\ t[i].bindo = MaxOf(Counts(t))
        /\ \A j \in (i + 1)..Len(t) : t[j].bindo # MaxOf(Counts(t))].idx

idxmax(t) ==
    t[CHOOSE i \in 1..Len(t) :
        /\ t[i].bindo = MaxOf(Counts(t))
        /\ \A j \in 1..(i - 1) : t[j].bindo # MaxOf(Counts(t))].idx

\* DataFrame.loc[label]
loc(t, label) == t[CHOOSE i \in 1..Len(t) : t[i].idx = label]

Entry(r) == [hangmok |-> r.hangmok, bindo |-> r.bindo]
NAEntry == [hangmok |-> <<"N", "/", "A">>, bindo |-> 0]
ZeroPct == [num |-> 0, den |-> 1]

\* lines 473-474
PeakOf(t) == IF t # EmptyTable THEN Entry(loc(t, idxmax(t))) ELSE NAEntry

\* the share of produce without the test of the total
ProducePctUnguarded(t) ==
    IF t # EmptyTable /\ (\E i \in 1..Len(t) : t[i].hangmok = word_produce)
    THEN [num |-> Sum(SelectSeq(t, LAMBDA r : r.hangmok = word_produce)) * 100,
          den |-> Sum(t)]
    ELSE ZeroPct

\* lines 477-479
ProducePct(t) ==
    IF t # EmptyTable
       /\ (\E i \in 1..Len(t) : t[i].hangmok = word_produce)
       /\ Sum(t) > 0
    THEN [num |-> Sum(SelectSeq(t, LAMBDA r : r.hangmok = word_produce)) * 100,
          den |-> Sum(t)]
    ELSE ZeroPct

\* line 482
TopAisle(t) == IF t # EmptyTable THEN Entry(t[1]) ELSE NAEntry

\* line 483
TopAislePct(t) ==
    IF t # EmptyTable /\ Sum(t) > 0
    THEN [num |-> TopAisle(t).bindo * 100, den |-> Sum(t)]
    ELSE ZeroPct

\* lines 470-501: the KPI cards
Kpi ==
    /\ pc = "kpi"
    /\ kpi' = [max_dow |-> PeakOf(dow_df),
               max_hour |-> PeakOf(hour_df),
               produce_pct |-> ProducePct(dept_df),
               top_aisle |-> TopAisle(aisle_df),
               top_aisle_pct |-> TopAislePct(aisle_df)]
    /\ rendered' = rendered \cup {"kpi_cards"}
    /\ pc' = "recs"
    /\ UNCHANGED <<loadVars, pickVars, statVars, tableVars, parserVars>>

\* lines 504-551: the recommendation chart and tables
Recs ==
    /\ pc = "recs"
    /\ rendered' = rendered \cup {"recs"}
    /\ pc' = "done"
    /\ UNCHANGED <<loadVars, pickVars, statVars, tableVars, kpi, parserVars>>

\* a widget interaction (or a reload of the page) runs the script again
Rerun ==
    /\ pc \in {"done", "crashed", "stopped"}
    /\ pc' = "start"
    /\ df' = NoneDf
    /\ rendered' = {}
    /\ selected_segment' = NoneId /\ selected_user_id' = NoneId
    /\ user_data' = <<>> /\ user_info' = NoRow
    /\ order_stats' = NoStats /\ basket_stats' = NoStats
    /\ dow_df' = EmptyTable /\ hour_df' = EmptyTable
    /\ dept_df' = EmptyTable /\ aisle_df' = EmptyTable
    /\ kpi' = NoKpi
    /\ UNCHANGED <<file, cache, parserVars>>

Report == Summary \/ ParseTables \/ DowChart \/ HourChart \/ CategoryCharts \/ Kpi \/ Recs

(***************************************************************************)
(* Reports the specifications start from.                                  *)
(***************************************************************************)
Users == {"u1", "u2"}
Segments == {"A", "B"}

\* reports that differ in the users and segments of their rows
AppRows == {TypicalRow(u, g) : u \in Users, g \in Segments}
IsAppFile(f) ==
    f = NoFile \/ \E k \in 0..MaxRows : \E rows \in [1..k -> AppRows] : f = FileOf(rows)

\* reports that differ in the cells of the two numeric columns
OrdersTexts == { <<"1", "2">>, <<"7">>, <<>>, <<"a", "b", "c">> }
RatioTexts == { <<"4", "5", ".", "2", "%">>, <<"4", "5", ".", "2">>, <<>>, <<"x">> }
LoadRows ==
    {ReportRow("u1", "A", o, r, TypicalStats, TypicalStats, TypicalDow,
               TypicalHour, TypicalDept, TypicalAisle) :
        o \in OrdersTexts, r \in RatioTexts}
IsLoadFile(f) ==
    \E k \in 0..MaxLoadRows : \E rows \in [1..k -> LoadRows] : f = FileOf(rows)

\* the frequency cells a column may hold: missing, a label without a count,
\* or up to MaxEntries clauses with counts up to MaxCount
FreqCells(labels) ==
    {NaN} \cup labels \cup
    UNION {{FreqString(es) : es \in [1..k -> [label : labels, count : 0..MaxCount]]} :
              k \in 1..MaxEntries}

DowLabels == {wol, hwa, <<"x">>}
HourLabels == {<<"9", "si">>, <<"1", "0", "si">>, <<"0", "9", "si">>, <<"a", "m">>}
DeptLabels == {word_produce, word_dairy}
AisleLabels == {<<"a">>, <<"b">>}

StatsCells ==
    {NaN, TypicalStats,
     word_pyeonggyun \o <<" ", "4", ",", " ">> \o word_choedae \o <<" ", "9", " ", "gae">>,
     word_choeso \o <<" ", "1", ".", "5", " ", "il">>}

\* the cells whose table is degenerate for the KPI computation: missing, one
\* clause of count 0 or MaxCount, MaxEntries clauses of count 0
DegenerateCells(labels) ==
    {NaN}
    \cup {FreqString(<<[label |-> l, count |-> c]>>) : l \in labels, c \in {0, MaxCount}}
    \cup {FreqString([i \in 1..MaxEntries |-> [label |-> l, count |-> 0]]) : l \in labels}

Fields == {"stats", "dow", "hour", "dept", "aisle", "kpi"}

\* the cells of one column of the row under study: every cell of the column
\* when the column is the field studied, a missing or a typical cell
\* otherwise; under "kpi" the four frequency columns vary together over
\* their degenerate and typical cells
CellsOf(studied, field, labels, typical) ==
    IF studied = field THEN FreqCells(labels)
    ELSE IF studied = "kpi" THEN DegenerateCells(labels) \cup {typical}
    ELSE {NaN, typical}

(***************************************************************************)
(* Specifications.                                                         *)
(***************************************************************************)
\* parse_key_value_string alone, over the generated strings
InitKV == KVInputs /\ IdleStats /\ IdleApp
SpecKV == InitKV /\ [][ParseKV]_vars

\* parse_stats_string alone, over the generated sentences
InitStats == StatsInputs /\ IdleKV /\ IdleApp
SpecStats == InitStats /\ [][ParseStats]_vars

\* load_data alone, over the reports that differ in their numeric columns
InitLoad ==
    /\ IdleKV /\ IdleStats
    /\ IsLoadFile(file)
    /\ cache = [filled |-> FALSE, value |-> NoneDf]
    /\ ScriptStart
SpecLoad == InitLoad /\ [][LoadData]_vars

\* the whole script, run after run, over the reports that differ in users
\* and segments
InitApp ==
    /\ IdleKV /\ IdleStats
    /\ IsAppFile(file)
    /\ cache = [filled |-> FALSE, value |-> NoneDf]
    /\ ScriptStart
NextApp ==
    \/ LoadData \/ StopIfNone \/ SelectSegment \/ SelectUser \/ UserData
    \/ Report \/ Rerun
SpecApp == InitApp /\ [][NextApp]_vars

\* the report of one selected user, from line 246 on, over the rows that
\* differ in their encoded cells
InitReport ==
    /\ IdleKV /\ IdleStats
    /\ \E studied \in Fields :
       \E os \in (IF studied = "stats" THEN StatsCells ELSE {TypicalStats}),
          bs \in (IF studied = "stats" THEN StatsCells ELSE {TypicalStats}),
          dow \in CellsOf(studied, "dow", DowLabels, TypicalDow),
          hour \in CellsOf(studied, "hour", HourLabels, TypicalHour),
          dept \in CellsOf(studied, "dept", DeptLabels, TypicalDept),
          aisle \in CellsOf(studied, "aisle", AisleLabels, TypicalAisle) :
          /\ file = FileOf(<<ReportRow("u1", "A", <<"1", "2">>,
                                       <<"4", "5", ".", "2", "%">>,
                                       os, bs, dow, hour, dept, aisle)>>)
          /\ df = load_data(file)
          /\ cache = [filled |-> TRUE, value |-> df]
          /\ user_data = df.rows
          /\ user_info = df.rows[1]
    /\ selected_segment = jeonche /\ selected_user_id = "u1"
    /\ rendered = {"sidebar_header", "segment_select", "user_select", "title",
                   "header", "profile"}
    /\ pc = "summary"
    /\ order_stats = NoStats /\ basket_stats = NoStats
    /\ dow_df = EmptyTable /\ hour_df = EmptyTable
    /\ dept_df = EmptyTable /\ aisle_df = EmptyTable
    /\ kpi = NoKpi
SpecReport == InitReport /\ [][Report]_vars


(***************************************************************************)
(* What the claims about load_data and the script run say.                 *)
(***************************************************************************)
PercentText(text) ==
    /\ text # <<>> /\ text[Len(text)] = "%"
    /\ "%" \notin Chars(SubSeq(text, 1, Len(text) - 1))
    /\ FloatAccepts(SubSeq(text, 1, Len(text) - 1))

\* the float a decimal text denotes: its digits over 10^(digits after the point)
DecimalOf(text) ==
    Normal([mant |-> DecimalValue(OnlyDigits(text)),
            scale |-> Len(OnlyDigits(AfterFirst(text, ".")))])

\* C6 as claimed: in every loaded report a reorder-ratio cell "45.2%" is the
\* float 45.2, a total-orders cell "12" is the integer 12, and every missing
\* or unparseable total-orders cell is the integer 0, whatever the other
\* cells of the column hold.
C6_LoadNormalizesCells ==
    (pc = "loaded" /\ ~df.none) =>
        \A i \in 1..Len(file.rows) :
            LET ratio == file.rows[i].reorder_ratio
                orders == file.rows[i].total_orders
            IN  /\ PercentText(ratio) =>
                      df.rows[i].reorder_ratio =
                          FloatVal(DecimalOf(SubSeq(ratio, 1, Len(ratio) - 1)))
                /\ (orders # <<>> /\ Chars(orders) \subseteq DigitChars) =>
                      df.rows[i].total_orders = IntVal(DecimalValue(orders))
                /\ (orders = <<>> \/ ~HasDigit(orders)) =>
                      df.rows[i].total_orders = IntVal(0)

\* C7: when the input file is missing, load_data reports an error, the
\* script stops before the sidebar, and nothing of the dashboard (selection,
\* parsing, KPI, chart or card) is ever executed in that run.
C7_MissingFileRendersNothing ==
    (~file.exists /\ pc # "start") =>
        /\ pc \in {"loaded", "stopped"}
        /\ df.none
        /\ rendered = {"error"}
        /\ selected_segment = NoneId /\ selected_user_id = NoneId
        /\ user_data = <<>> /\ user_info = NoRow
        /\ order_stats = NoStats /\ basket_stats = NoStats
        /\ dow_df = EmptyTable /\ hour_df = EmptyTable
        /\ dept_df = EmptyTable /\ aisle_df = EmptyTable
        /\ kpi = NoKpi

\* C7 witness: the file is missing and the run has stopped after the error.
C7_Witness == ~file.exists /\ pc = "stopped" /\ cache.filled /\ rendered = {"error"}

KpiShown == pc \in {"recs", "done"}

\* the table a cell decodes to, in the order of its clauses
Decoded(cell) == parse_key_value_string(cell)

\* C4 as claimed: the top-aisle KPI names an entry of maximum count of the
\* aisle table and its percentage is that maximum over the sum of all
\* counts, wherever the entry stands in the table.
C4_TopAisleIsMaxEntry ==
    LET t == Decoded(user_info.aisle_counts)
    IN  (KpiShown /\ t # EmptyTable /\ Sum(t) > 0) =>
            /\ kpi.top_aisle.bindo = MaxOf(Counts(t))
            /\ \E i \in 1..Len(t) : Entry(t[i]) = kpi.top_aisle
            /\ kpi.top_aisle_pct.num * Sum(t)
                   = MaxOf(Counts(t)) * 100 * kpi.top_aisle_pct.den

\* the rows of t that hold its maximum count
Peaks(t) == {i \in 1..Len(t) : t[i].bindo = MaxOf(Counts(t))}
Tied(t) == t # EmptyTable /\ Cardinality(Peaks(t)) >= 2
FirstPeak(t) == t[CHOOSE i \in Peaks(t) : \A j \in Peaks(t) : i <= j]

\* C5 as claimed, for the peak day: when two or more entries share the
\* maximum count, the peak is the first such entry in the order of the clauses.
C5_PeakDayIsFirstInClauseOrder ==
    (KpiShown /\ Tied(Decoded(user_info.dow_counts))) =>
        kpi.max_dow = Entry(FirstPeak(Decoded(user_info.dow_counts)))


\* the place of a day of the week, Monday first; any other label comes last
DayPlace(label) ==
    IF \E k \in 1..Len(dow_order) : dow_order[k] = label
    THEN CHOOSE k \in 1..Len(dow_order) : dow_order[k] = label
    ELSE Len(dow_order) + 1

DayShown(label) == IF DayPlace(label) <= Len(dow_order) THEN label ELSE NaN

\* the number written first in a label
HourNumber(label) ==
    LET starts == {i \in 1..Len(label) : label[i] \in DigitChars}
        first == CHOOSE i \in starts : \A j \in starts : i <= j
        ends == {j \in first..Len(label) :
                    \A k \in first..j : label[k] \in DigitChars}
        last == CHOOSE j \in ends : \A k \in ends : j >= k
    IN  DecimalValue(SubSeq(label, first, last))

\* C5 as amended: when two or more entries share the maximum count, the peak
\* day is the one of them that comes first in the order Monday..Sunday
\* (labels that are no day come last, in clause order, and are shown as NaN)
\* and the peak hour is one of them with the smallest hour number.
C5_PeakIsFirstInDisplayOrder ==
    KpiShown =>
        /\ LET t == Decoded(user_info.dow_counts)
           IN  Tied(t) =>
                 \E i \in Peaks(t) :
                    /\ kpi.max_dow = [hangmok |-> DayShown(t[i].hangmok),
                                      bindo |-> t[i].bindo]
                    /\ \A j \in Peaks(t) :
                          \/ DayPlace(t[i].hangmok) < DayPlace(t[j].hangmok)
                          \/ /\ DayPlace(t[i].hangmok) = DayPlace(t[j].hangmok)
                             /\ DayPlace(t[i].hangmok) <= Len(dow_order) \/ i <= j
        /\ LET t == Decoded(user_info.hour_counts)
           IN  Tied(t) =>
                 \E i \in Peaks(t) :
                    /\ kpi.max_hour = Entry(t[i])
                    /\ \A j \in Peaks(t) :
                          HourNumber(t[i].hangmok) <= HourNumber(t[j].hangmok)

\* C5 witness: the KPI cards are shown for a day table whose maximum count is
\* shared by two entries.
C5_Witness ==
    /\ pc = "done"
    /\ user_info.dow_counts = FreqString(<<[label |-> hwa, count |-> 1],
                                           [label |-> wol, count |-> 1]>>)
    /\ kpi.max_dow = [hangmok |-> wol, bindo |-> 1]

\* C8 as claimed: for a selected user with a row, no value of an encoded cell
\* makes the render raise; here for the four frequency cells of a row whose
\* two statistics cells parse.
C8_FrequencyCellNeverCrashes ==
    (/\ ~parse_stats_string(user_info.days_since_prior_order_stats).raised
     /\ ~parse_stats_string(user_info.basket_size_stats).raised)
    => (pc # "crashed" /\ "exception" \notin rendered)

(***************************************************************************)
(* What the claim about the KPI computation on degenerate tables says.     *)
(***************************************************************************)
\* the total of the counts of a table
TotalOf(t) ==
    LET upto[i \in 0..Len(t)] == IF i = 0 THEN 0 ELSE upto[i - 1] + t[i].bindo
    IN  upto[Len(t)]

HasLabel(t, label) == \E i \in 1..Len(t) : t[i].hangmok = label

\* C11: for every combination of empty and non-empty day, hour, department
\* and aisle tables (tables of counts all 0 and department tables without
\* produce included) the KPI computation raises no error and divides by no
\* zero; an empty table gives the peak "N/A" with count 0, the share of
\* produce is 0 when the table is empty, its total is 0 or produce is absent,
\* and the share of the top aisle is 0 when the table is empty or its total
\* is 0.
C11_KpiFailsSafe ==
    LET dow == Decoded(user_info.dow_counts)
        hour == Decoded(user_info.hour_counts)
        dept == Decoded(user_info.department_counts)
        aisle == Decoded(user_info.aisle_counts)
    IN  KpiShown =>
            /\ "kpi_cards" \in rendered /\ "exception" \notin rendered
            /\ kpi.produce_pct.den # 0 /\ kpi.top_aisle_pct.den # 0
            /\ dow = <<>> => kpi.max_dow = [hangmok |-> <<"N", "/", "A">>, bindo |-> 0]
            /\ hour = <<>> => kpi.max_hour = [hangmok |-> <<"N", "/", "A">>, bindo |-> 0]
            /\ aisle = <<>> => kpi.top_aisle = [hangmok |-> <<"N", "/", "A">>, bindo |-> 0]
            /\ (dept = <<>> \/ TotalOf(dept) = 0 \/ ~HasLabel(dept, word_produce))
                  => kpi.produce_pct.num = 0
            /\ (aisle = <<>> \/ TotalOf(aisle) = 0) => kpi.top_aisle_pct.num = 0

\* C11 witness: the KPI cards are shown for an empty day table, an hour table
\* of counts all 0, a department table without produce and an aisle table of
\* total 0.
C11_Witness ==
    /\ KpiShown
    /\ user_info.dow_counts = NaN
    /\ Len(hour_df) = MaxEntries /\ TotalOf(hour_df) = 0
    /\ dept_df # <<>> /\ TotalOf(dept_df) > 0 /\ ~HasLabel(dept_df, word_produce)
    /\ aisle_df # <<>> /\ TotalOf(aisle_df) = 0
    /\ kpi.max_dow.bindo = 0 /\ kpi.max_hour.bindo = 0
    /\ kpi.produce_pct.num = 0 /\ kpi.top_aisle_pct.num = 0

(***************************************************************************)
(* What the claim about the selection says.                                *)
(***************************************************************************)
\* a row is of the selection: of the selected user and of the selected
\* segment (of any segment under the option for all segments)
OfSelection(r) ==
    /\ r.user_id = selected_user_id
    /\ selected_segment = jeonche \/ r.segment = selected_segment

SelectionHasRows == \E i \in 1..Len(file.rows) : OfSelection(file.rows[i])

ReportContent ==
    {"header", "profile", "stats_cards", "insight", "pattern_title",
     "dow_card", "dow_chart", "hour_card", "hour_chart", "dept_card",
     "dept_chart", "aisle_card", "aisle_chart", "kpi_cards", "recs"}

\* the run shows the report of the selected user
ReportState ==
    /\ "header" \in rendered /\ "warning" \notin rendered
    /\ SelectionHasRows
    /\ user_data # <<>>
    /\ \A i \in 1..Len(user_data) : OfSelection(user_data[i])
    /\ OfSelection(user_info)

\* the run shows the warning that the selection has no data
NoDataState ==
    /\ "warning" \in rendered
    /\ ~SelectionHasRows
    /\ rendered \cap ReportContent = {}
    /\ "exception" \notin rendered

\* C12 as claimed: after any sequence of segment and user selections on a
\* loaded report, a finished render is either the report of a user present
\* among the rows of the selected segment, every row used for it being of
\* that user and of that segment, or, when the selection has no rows, the
\* no-data warning with no report content and no error.
C12_RenderIsReportOrNoData ==
    (file.exists /\ pc = "done") => (ReportState \/ NoDataState)

\* the same for the reports in which every user has the rows of one segment
OneSegmentPerUser ==
    \A i, j \in 1..Len(file.rows) :
        file.rows[i].user_id = file.rows[j].user_id
            => file.rows[i].segment = file.rows[j].segment

RenderIsReportOrNoDataForOneSegmentPerUser ==
    (file.exists /\ OneSegmentPerUser /\ pc = "done")
        => (ReportState \/ NoDataState)

=============================================================================
